---- MODULE Spec2Model ----
(***************************************************************************)
(* A model of demo.py: the two scorers specialized_method and              *)
(* general_method, and the report that main prints.                        *)
(*                                                                         *)
(* Numbers.  A Python int is an integer.  A Python float is modelled by    *)
(* the exact rational it stands for, a pair <<num, den>> in lowest terms   *)
(* with den > 0; binary rounding of the IEEE double is not modelled, save  *)
(* where it decides what is printed (see Format2f).                        *)
(*                                                                         *)
(* Two state machines share the definitions of the scorers:                *)
(*   Spec      a client that calls the scorers with arguments drawn from   *)
(*             bounded sets (the scorers as pure functions);               *)
(*   MainSpec  one run of main, one step per executed source line, pc      *)
(*             being the number of the line of demo.py about to run.       *)
(***************************************************************************)
EXTENDS Integers, Sequences, FiniteSets, TLC

VARIABLES
    call,       \* client: the scorer call made last, with its outcome
    prev,       \* client: the call made before that one
    pc,         \* main: the source line about to run
    status,     \* main: "running", "exited" or the uncaught exception
    locals,     \* main: main's local names that are bound
    size_it,    \* main: items the live iterator over problem_sizes has yielded
    time_it,    \* main: items the live iterator over computation_times has yielded
    frame,      \* main: the local names of the scorer being executed
    stdout,     \* main: the lines printed so far
    calls       \* main: the scorer calls made so far, in order

vars == <<call, prev, pc, status, locals, size_it, time_it, frame, stdout, calls>>

clientVars == <<call, prev>>
mainVars == <<pc, status, locals, size_it, time_it, frame, stdout, calls>>

----------------------------------------------------------------------------
(* Bounds of the client's argument sets.                                   *)

\* problem sizes -1 .. MaxSmallSize are drawn besides the three of main
MaxSmallSize == 4
\* computation times are drawn on a grid of TicksPerStep points per step
\* (a step is 1/computation_speed seconds), so that times that are not a
\* whole number of milliseconds occur
TicksPerStep == 2
\* grid times 0 .. MaxTicks ticks
MaxTicks == 8

----------------------------------------------------------------------------
(* Arithmetic on floats as exact rationals.                                *)

RECURSIVE GCD(_, _)
GCD(a, b) == IF b = 0 THEN a ELSE GCD(b, a % b)

Abs(x) == IF x < 0 THEN -x ELSE x

\* the float num/den (den # 0), in lowest terms with a positive denominator
Float(num, den) ==
    LET g == GCD(Abs(num), Abs(den))
        s == IF den < 0 THEN -1 ELSE 1
    IN  <<(s * num) \div g, (s * den) \div g>>

\* float(i) of an int i
FromInt(i) == <<i, 1>>

\* a * b
FloatMul(a, b) == Float(a[1] * b[1], a[2] * b[2])

\* a <= b, a < b, a == b
FloatLe(a, b) == a[1] * b[2] <= b[1] * a[2]
FloatLt(a, b) == a[1] * b[2] < b[1] * a[2]
FloatEq(a, b) == a[1] * b[2] = b[1] * a[2]

\* a call's outcome: a returned value, or an exception raised
Return(v) == [exc |-> "None", value |-> v]
Raise(e) == [exc |-> e, value |-> <<0, 1>>]

\* a / b: raises ZeroDivisionError when b is zero
TrueDiv(a, b) ==
    IF b[1] = 0
    THEN Raise("ZeroDivisionError")
    ELSE Return(Float(a[1] * b[2], a[2] * b[1]))

\* int(x): truncation toward zero
int(x) ==
    IF x[1] >= 0 THEN x[1] \div x[2] ELSE -((-x[1]) \div x[2])

\* min(a, b): b only when it is smaller than a
min(a, b) == IF FloatLt(b, a) THEN b ELSE a

----------------------------------------------------------------------------
(* The scorers.                                                            *)

\* the mutant of specialized_method divides the quality by the size
ScaledQuality(problem_size) ==
    TrueDiv(Float(7, 10), FromInt(problem_size))

\* lines 7-10
specialized_method(problem_size) == Return(Float(7, 10))

\* line 15
computation_speed == 1000

\* line 16; the mutant rounds to the nearest step instead of truncating
RoundedSteps(computation_time, speed) ==
    LET x == FloatMul(computation_time, FromInt(speed))
    IN  (2 * x[1] + x[2]) \div (2 * x[2])

total_steps(computation_time, speed) ==
    int(FloatMul(computation_time, FromInt(speed)))

\* line 18; the mutants: integer division 1 / problem_size, and a guard
\* that returns 0.0 for a problem size of zero
IntDivImprovement(problem_size) ==
    IF problem_size = 0
    THEN Raise("ZeroDivisionError")
    ELSE Return(FromInt(1 \div problem_size))

GuardedImprovement(problem_size) ==
    IF problem_size = 0
    THEN Return(FromInt(0))
    ELSE TrueDiv(FromInt(1), FromInt(problem_size))

improvement_per_step(problem_size) ==
    TrueDiv(FromInt(1), FromInt(problem_size))

\* line 21; the mutant computes what is left to improve
RemainingQuality(steps, improvement) ==
    LET q == FloatMul(FromInt(steps), improvement)
    IN  Float(q[2] - q[1], q[2])

solution_quality(steps, improvement) ==
    FloatMul(FromInt(steps), improvement)

\* line 23; the mutants: no cap, and a cap that wraps around 1.0
Uncapped(quality) == quality

WrappedCap(quality) ==
    IF FloatLt(quality, FromInt(1))
    THEN quality
    ELSE Float(quality[1] % quality[2], quality[2])

capped(quality) == min(quality, FromInt(1))

\* lines 13-24
general_method(problem_size, computation_time) ==
    LET steps == total_steps(computation_time, computation_speed)
        improvement == improvement_per_step(problem_size)
    IN  IF improvement.exc # "None"
        THEN improvement
        ELSE Return(capped(solution_quality(steps, improvement.value)))

----------------------------------------------------------------------------
(* The hardcoded inputs of main.                                           *)

\* line 32; the mutant holds a problem size of zero
SizesWithZero == <<5000, 0, 20000>>

problem_sizes == <<5000, 10000, 20000>>

\* line 33: 0.1, 0.5, 1.0, 2.0
computation_times == <<Float(1, 10), Float(5, 10), Float(10, 10), Float(20, 10)>>

Range(s) == {s[i] : i \in DOMAIN s}

----------------------------------------------------------------------------
(* The client of the scorers.                                              *)

ProblemSizes == (-1 .. MaxSmallSize) \cup Range(problem_sizes)

ComputationTimes ==
    {Float(k, TicksPerStep * computation_speed) : k \in 0 .. MaxTicks}
        \cup Range(computation_times)

NoCall == [fn |-> "none", problem_size |-> 0, computation_time |-> <<0, 1>>,
           outcome |-> Return(<<0, 1>>)]

CallSpecialized ==
    /\ \E n \in ProblemSizes :
           call' = [fn |-> "specialized_method", problem_size |-> n,
                    computation_time |-> <<0, 1>>,
                    outcome |-> specialized_method(n)]
    /\ prev' = call
    /\ UNCHANGED mainVars

CallGeneral ==
    /\ \E n \in ProblemSizes, t \in ComputationTimes :
           call' = [fn |-> "general_method", problem_size |-> n,
                    computation_time |-> t,
                    outcome |-> general_method(n, t)]
    /\ prev' = call
    /\ UNCHANGED mainVars

Init ==
    /\ call = NoCall
    /\ prev = NoCall
    /\ pc = 27
    /\ status = "running"
    /\ locals = <<>>
    /\ size_it = 0
    /\ time_it = 0
    /\ frame = <<>>
    /\ stdout = <<>>
    /\ calls = <<>>

Next == CallSpecialized \/ CallGeneral

Spec == Init /\ [][Next]_vars

----------------------------------------------------------------------------
(* One run of main, a step per executed line.                              *)

Running == status = "running"

\* d with name bound (or bound again) to v
Bind(d, name, v) == (name :> v) @@ d

\* f"{quality:.2f}" of a quality >= 0: the digits <<units, tenths,
\* hundredths>> of the nearest hundredth.  Python rounds the double it
\* holds, not the rational: the doubles main holds at the two ties it
\* formats, 100 * (1.0/20000) and 500 * (1.0/20000), are
\* 0.005000000000000000104... and 0.025000000000000001387..., above the
\* tie, and print as 0.01 and 0.03 (lines 94 and 95); so a tie rounds up.
\* The mutant cuts the digits after the second off.
TruncatedFormat2f(quality) ==
    LET h == (100 * quality[1]) \div quality[2]
    IN  <<h \div 100, (h \div 10) % 10, h % 10>>

Format2f(quality) ==
    LET h == (200 * quality[1] + quality[2]) \div (2 * quality[2])
    IN  <<h \div 100, (h \div 10) % 10, h % 10>>

\* print(...): the line is named by the source line that prints it, with
\* the values its f-string renders
Echo(line, fields) == Append(stdout, [line |-> line, fields |-> fields])

\* the lines of main that print a literal
LiteralLines == {27, 28, 29, 30, 36, 40, 43, 50, 53, 54, 55, 56, 57, 58}

\* the line that runs after a straight-line statement of main
After(line) ==
    CASE line = 30 -> 32
      [] line = 33 -> 36
      [] line = 36 -> 37
      [] line = 40 -> 43
      [] line = 43 -> 44
      [] line = 50 -> 53
      [] OTHER -> line + 1

\* lines 27-30, 36, 40, 43, 50, 53-58; main returns after line 58 and the
\* program exits
PrintLiteral ==
    /\ Running
    /\ pc \in LiteralLines
    /\ stdout' = Echo(pc, <<>>)
    /\ IF pc = 58
       THEN status' = "exited" /\ pc' = 61
       ELSE pc' = After(pc) /\ UNCHANGED status
    /\ UNCHANGED <<locals, size_it, time_it, frame, calls, clientVars>>

\* lines 32 and 33
AssignLists ==
    /\ Running
    /\ pc \in {32, 33}
    /\ locals' = IF pc = 32
                 THEN Bind(locals, "problem_sizes", problem_sizes)
                 ELSE Bind(locals, "computation_times", computation_times)
    /\ pc' = After(pc)
    /\ UNCHANGED <<status, size_it, time_it, frame, stdout, calls, clientVars>>

\* lines 37 and 44: for size in problem_sizes
ForSize ==
    /\ Running
    /\ pc \in {37, 44}
    /\ IF size_it < Len(locals.problem_sizes)
       THEN /\ locals' = Bind(locals, "size", locals.problem_sizes[size_it + 1])
            /\ size_it' = size_it + 1
            /\ pc' = pc + 1
       ELSE /\ size_it' = 0
            /\ pc' = IF pc = 37 THEN 40 ELSE 50
            /\ UNCHANGED locals
    /\ UNCHANGED <<status, time_it, frame, stdout, calls, clientVars>>

\* line 38: the call of specialized_method(size)
CallSpecializedFromMain ==
    /\ Running
    /\ pc = 38
    /\ frame' = Bind(<<>>, "problem_size", locals.size)
    /\ calls' = Append(calls, [fn |-> "specialized_method", args |-> <<locals.size>>])
    /\ pc' = 9
    /\ UNCHANGED <<status, locals, size_it, time_it, stdout, clientVars>>

\* line 9
Line9 ==
    /\ Running
    /\ pc = 9
    /\ LET r == specialized_method(frame.problem_size)
       IN  IF r.exc # "None"
           THEN status' = r.exc /\ UNCHANGED <<pc, frame>>
           ELSE /\ frame' = Bind(frame, "solution_quality", r.value)
                /\ pc' = 10
                /\ UNCHANGED status
    /\ UNCHANGED <<locals, size_it, time_it, stdout, calls, clientVars>>

\* lines 10 and 24: return solution_quality, bound to quality by the
\* assignment of line 38 or 47
ReturnQuality ==
    /\ Running
    /\ pc \in {10, 24}
    /\ locals' = Bind(locals, "quality", frame.solution_quality)
    /\ frame' = <<>>
    /\ pc' = IF pc = 10 THEN 39 ELSE 48
    /\ UNCHANGED <<status, size_it, time_it, stdout, calls, clientVars>>

\* line 39
PrintSpecializedRow ==
    /\ Running
    /\ pc = 39
    /\ stdout' = Echo(39, <<locals.size, Format2f(locals.quality)>>)
    /\ pc' = 37
    /\ UNCHANGED <<status, locals, size_it, time_it, frame, calls, clientVars>>

\* lines 45 and 49
PrintSizeLine ==
    /\ Running
    /\ pc \in {45, 49}
    /\ stdout' = Echo(pc, <<locals.size>>)
    /\ pc' = IF pc = 45 THEN 46 ELSE 44
    /\ UNCHANGED <<status, locals, size_it, time_it, frame, calls, clientVars>>

\* line 46: for comp_time in computation_times.  The mutant keeps the
\* exhausted iterator, as if computation_times were a generator.
ForTimeOnce ==
    /\ Running
    /\ pc = 46
    /\ IF time_it < Len(locals.computation_times)
       THEN /\ locals' = Bind(locals, "comp_time", locals.computation_times[time_it + 1])
            /\ time_it' = time_it + 1
            /\ pc' = 47
       ELSE /\ pc' = 49
            /\ UNCHANGED <<locals, time_it>>
    /\ UNCHANGED <<status, size_it, frame, stdout, calls, clientVars>>

ForTime ==
    /\ Running
    /\ pc = 46
    /\ IF time_it < Len(locals.computation_times)
       THEN /\ locals' = Bind(locals, "comp_time", locals.computation_times[time_it + 1])
            /\ time_it' = time_it + 1
            /\ pc' = 47
       ELSE /\ time_it' = 0
            /\ pc' = 49
            /\ UNCHANGED locals
    /\ UNCHANGED <<status, size_it, frame, stdout, calls, clientVars>>

\* line 47: the call of general_method(size, comp_time)
CallGeneralFromMain ==
    /\ Running
    /\ pc = 47
    /\ frame' = Bind(Bind(<<>>, "problem_size", locals.size),
                     "computation_time", locals.comp_time)
    /\ calls' = Append(calls, [fn |-> "general_method",
                               args |-> <<locals.size, locals.comp_time>>])
    /\ pc' = 15
    /\ UNCHANGED <<status, locals, size_it, time_it, stdout, clientVars>>

\* line 15
Line15 ==
    /\ Running
    /\ pc = 15
    /\ frame' = Bind(frame, "computation_speed", computation_speed)
    /\ pc' = 16
    /\ UNCHANGED <<status, locals, size_it, time_it, stdout, calls, clientVars>>

\* line 16
Line16 ==
    /\ Running
    /\ pc = 16
    /\ frame' = Bind(frame, "total_steps",
                     total_steps(frame.computation_time, frame.computation_speed))
    /\ pc' = 18
    /\ UNCHANGED <<status, locals, size_it, time_it, stdout, calls, clientVars>>

\* line 18: an uncaught ZeroDivisionError ends the program
Line18 ==
    /\ Running
    /\ pc = 18
    /\ LET r == improvement_per_step(frame.problem_size)
       IN  IF r.exc # "None"
           THEN status' = r.exc /\ UNCHANGED <<pc, frame>>
           ELSE /\ frame' = Bind(frame, "improvement_per_step", r.value)
                /\ pc' = 21
                /\ UNCHANGED status
    /\ UNCHANGED <<locals, size_it, time_it, stdout, calls, clientVars>>

\* line 21
Line21 ==
    /\ Running
    /\ pc = 21
    /\ frame' = Bind(frame, "solution_quality",
                     solution_quality(frame.total_steps, frame.improvement_per_step))
    /\ pc' = 23
    /\ UNCHANGED <<status, locals, size_it, time_it, stdout, calls, clientVars>>

\* line 23
Line23 ==
    /\ Running
    /\ pc = 23
    /\ frame' = Bind(frame, "solution_quality", capped(frame.solution_quality))
    /\ pc' = 24
    /\ UNCHANGED <<status, locals, size_it, time_it, stdout, calls, clientVars>>

\* line 48
PrintGeneralRow ==
    /\ Running
    /\ pc = 48
    /\ stdout' = Echo(48, <<locals.comp_time, Format2f(locals.quality)>>)
    /\ pc' = 46
    /\ UNCHANGED <<status, locals, size_it, time_it, frame, calls, clientVars>>

MainNext ==
    \/ PrintLiteral
    \/ AssignLists
    \/ ForSize
    \/ CallSpecializedFromMain
    \/ Line9
    \/ ReturnQuality
    \/ PrintSpecializedRow
    \/ PrintSizeLine
    \/ ForTime
    \/ CallGeneralFromMain
    \/ Line15
    \/ Line16
    \/ Line18
    \/ Line21
    \/ Line23
    \/ PrintGeneralRow

MainSpec == Init /\ [][MainNext]_vars

\* main is one thread that runs each line as soon as the line before it is
\* done: a step that can be taken is taken
MainFairSpec == MainSpec /\ WF_vars(MainNext)

----------------------------------------------------------------------------
(* Properties of the scorers, read off the client's last two calls.        *)

IsGeneral(c) == c.fn = "general_method"
IsSpecialized(c) == c.fn = "specialized_method"
Returned(c) == c.outcome.exc = "None"

\* t * 1000 is not a whole number: t is not a whole number of milliseconds
FractionalMs(t) == (t[1] * 1000) % t[2] # 0

C2_Constant ==
    IsSpecialized(call) =>
        /\ Returned(call)
        /\ call.outcome.value[1] * 10 = 7 * call.outcome.value[2]

\* C2's case: a call with size 0 after a call with a negative size
C2_Witness ==
    /\ IsSpecialized(call) /\ call.problem_size = 0
    /\ IsSpecialized(prev) /\ prev.problem_size < 0
    /\ Returned(call) /\ Returned(prev)

\* C3: the quality either scorer returns lies in [0, 1]: general_method for
\* n > 0 and t >= 0, specialized_method for every n.
C3_UnitInterval ==
    (IsSpecialized(call) \/ (IsGeneral(call) /\ call.problem_size > 0)) =>
        /\ Returned(call)
        /\ 0 <= call.outcome.value[1]
        /\ call.outcome.value[1] <= call.outcome.value[2]

\* C3's case: more steps than the problem size, so that the cap acts
C3_Witness ==
    /\ IsGeneral(call)
    /\ call.problem_size > 0
    /\ total_steps(call.computation_time, computation_speed) > call.problem_size
    /\ Returned(call)
    /\ call.outcome.value = FromInt(1)

SameSizePair ==
    /\ IsGeneral(prev) /\ IsGeneral(call)
    /\ prev.problem_size = call.problem_size
    /\ call.problem_size > 0
    /\ FloatLe(prev.computation_time, call.computation_time)

\* C4: for a fixed n > 0 and 0 <= t1 <= t2,
\* general_method(n, t1) <= general_method(n, t2).
C4_MonotoneInTime ==
    SameSizePair =>
        /\ Returned(prev) /\ Returned(call)
        /\ FloatLe(prev.outcome.value, call.outcome.value)

\* C4's case: a longer time that scores strictly more
C4_Witness ==
    /\ SameSizePair
    /\ Returned(prev) /\ Returned(call)
    /\ FloatLt(prev.outcome.value, call.outcome.value)

SameTimePair ==
    /\ IsGeneral(prev) /\ IsGeneral(call)
    /\ prev.computation_time = call.computation_time
    /\ FloatLt(FromInt(0), call.computation_time)
    /\ 0 < prev.problem_size
    /\ prev.problem_size <= call.problem_size

\* C5: for a fixed t > 0 and 0 < n1 <= n2,
\* general_method(n1, t) >= general_method(n2, t).
C5_AntitoneInSize ==
    SameTimePair =>
        /\ Returned(prev) /\ Returned(call)
        /\ FloatLe(call.outcome.value, prev.outcome.value)

\* C5's case: a larger size that scores strictly less
C5_Witness ==
    /\ SameTimePair
    /\ Returned(prev) /\ Returned(call)
    /\ FloatLt(call.outcome.value, prev.outcome.value)

\* the call general_method(n, num/den) returned exactly hundredths/100
Scores(c, n, num, den, hundredths) ==
    (IsGeneral(c) /\ c.problem_size = n /\ FloatEq(c.computation_time, <<num, den>>)) =>
        /\ Returned(c)
        /\ c.outcome.value[1] * 100 = hundredths * c.outcome.value[2]

\* C6: general_method(5000, 0.1) = 0.02, general_method(5000, 2.0) = 0.40,
\* general_method(20000, 1.0) = 0.05 and general_method(10000, 0.5) = 0.05.
C6_ConcreteCases ==
    /\ Scores(call, 5000, 1, 10, 2)
    /\ Scores(call, 5000, 2, 1, 40)
    /\ Scores(call, 20000, 1, 1, 5)
    /\ Scores(call, 10000, 1, 2, 5)

\* C6's case: two of the four calls, made one after the other
C6_Witness ==
    /\ IsGeneral(prev) /\ prev.problem_size = 5000
    /\ FloatEq(prev.computation_time, <<2, 1>>)
    /\ IsGeneral(call) /\ call.problem_size = 10000
    /\ FloatEq(call.computation_time, <<1, 2>>)
    /\ Returned(prev) /\ Returned(call)

\* C7: general_method with n = 0 raises ZeroDivisionError for every t >= 0,
\* t = 0 and t below one millisecond included, and returns no quality.
C7_ZeroSizeRaises ==
    (IsGeneral(call) /\ call.problem_size = 0) =>
        call.outcome.exc = "ZeroDivisionError"

\* C7's case: size 0 with t = 0, after size 0 with 0 < t < 1 ms
C7_Witness ==
    /\ IsGeneral(call) /\ call.problem_size = 0
    /\ call.computation_time[1] = 0
    /\ call.outcome.exc = "ZeroDivisionError"
    /\ IsGeneral(prev) /\ prev.problem_size = 0
    /\ prev.computation_time[1] > 0
    /\ total_steps(prev.computation_time, computation_speed) = 0
    /\ prev.outcome.exc = "ZeroDivisionError"

----------------------------------------------------------------------------
(* Properties of the run of main.                                          *)

\* the qualities of the transcript in the docstring, lines 71-73, 80-83,
\* 87-90 and 94-97, as digits
transcript ==
    << <<0, 7, 0>>, <<0, 7, 0>>, <<0, 7, 0>>,
       <<0, 0, 2>>, <<0, 1, 0>>, <<0, 2, 0>>, <<0, 4, 0>>,
       <<0, 0, 1>>, <<0, 0, 5>>, <<0, 1, 0>>, <<0, 2, 0>>,
       <<0, 0, 1>>, <<0, 0, 3>>, <<0, 0, 5>>, <<0, 1, 0>> >>

IsPrefix(s, t) ==
    /\ Len(s) <= Len(t)
    /\ \A i \in 1 .. Len(s) : s[i] = t[i]

\* the printed lines that show a quality, in order
RECURSIVE QualityRows(_)
QualityRows(out) ==
    IF out = <<>>
    THEN <<>>
    ELSE LET rest == QualityRows(SubSeq(out, 1, Len(out) - 1))
             last == out[Len(out)]
         IN  IF last.line \in {39, 48} THEN Append(rest, last) ELSE rest

PrintedQualities ==
    LET rows == QualityRows(stdout)
    IN  [i \in 1 .. Len(rows) |-> rows[i].fields[2]]

SpecializedCallOf(n) == [fn |-> "specialized_method", args |-> <<n>>]

GeneralCallsOf(n) ==
    << [fn |-> "general_method", args |-> <<n, <<1, 10>>>>],
       [fn |-> "general_method", args |-> <<n, <<1, 2>>>>],
       [fn |-> "general_method", args |-> <<n, <<1, 1>>>>],
       [fn |-> "general_method", args |-> <<n, <<2, 1>>>>] >>

ExpectedCalls ==
    <<SpecializedCallOf(5000), SpecializedCallOf(10000), SpecializedCallOf(20000)>>
        \o GeneralCallsOf(5000) \o GeneralCallsOf(10000) \o GeneralCallsOf(20000)

\* C8: main calls specialized_method once per problem size in list order
\* (5000, 10000, 20000) and only then general_method once per (size, time)
\* pair, sizes outer and times (0.1, 0.5, 1.0, 2.0) inner: 3 and 12 calls in
\* all by the time main exits, and each result is printed before the next
\* call is made.
C8_CallSequence ==
    /\ IsPrefix(calls, ExpectedCalls)
    /\ status = "exited" => calls = ExpectedCalls
    /\ Len(QualityRows(stdout)) <= Len(calls)
    /\ Len(calls) <= Len(QualityRows(stdout)) + 1
    /\ pc \in {38, 47} => Len(QualityRows(stdout)) = Len(calls)

\* C8's case: main has exited after 15 calls and 15 printed results
C8_Witness ==
    /\ status = "exited"
    /\ Len(calls) = 15
    /\ Len(QualityRows(stdout)) = 15
    /\ calls[3].fn = "specialized_method"
    /\ calls[4].fn = "general_method"

\* C9: the qualities main prints, to 2 decimal places, are those of the
\* transcript in order: 0.70 three times, then 0.02 0.10 0.20 0.40 for size
\* 5000, 0.01 0.05 0.10 0.20 for size 10000, 0.01 0.03 0.05 0.10 for 20000.
C9_Transcript ==
    /\ IsPrefix(PrintedQualities, transcript)
    /\ status = "exited" => PrintedQualities = transcript

\* C9's case: main has exited with the last row, 0.10 for size 20000 and
\* 2.0 s, printed
C9_Witness ==
    /\ status = "exited"
    /\ Len(PrintedQualities) = 15
    /\ PrintedQualities[15] = <<0, 1, 0>>
    /\ PrintedQualities[13] = <<0, 0, 3>>

\* the section a printing line of main belongs to: 1 header, 2 specialized
\* table, 3 general table, 4 conclusion
SectionOf(line) ==
    CASE line <= 30 -> 1
      [] line > 30 /\ line <= 40 -> 2
      [] line > 40 /\ line <= 50 -> 3
      [] OTHER -> 4

SectionsInOrder ==
    \A i, j \in 1 .. Len(stdout) :
        i <= j => SectionOf(stdout[i].line) <= SectionOf(stdout[j].line)

ReportComplete ==
    /\ {SectionOf(stdout[i].line) : i \in 1 .. Len(stdout)} = {1, 2, 3, 4}
    /\ stdout[Len(stdout)].line = 58

\* C10: every run of main exits, after printing the conclusion, with the
\* sections printed in the order header, specialized table, general table,
\* conclusion, and never raises the ZeroDivisionError of general_method.
C10_Terminates ==
    /\ <>(status = "exited")
    /\ [](status # "ZeroDivisionError")
    /\ [](SectionsInOrder)
    /\ [](status = "exited" => ReportComplete)

\* C10's case: main has exited, the last line of the conclusion printed
C10_Witness ==
    /\ status = "exited"
    /\ pc = 61
    /\ Len(stdout) = 35
    /\ stdout[35].line = 58

====
